---- MODULE Spec2Model ----
(***************************************************************************)
(* A model of apple-card-csv: lib/parse.js (processPageContent, parse),   *)
(* lib/reverse.js (reverse) and lib/main.js (comparator, validateInput,   *)
(* parse).                                                                 *)
(*                                                                         *)
(* JavaScript values are modelled as follows.  A string is a TLA+ string; *)
(* `undefined`, `null`, `true` and `false` are the reserved strings        *)
(* Undefined, Null, JsTrue and JsFalse, which no text of a page equals.    *)
(* A number is a record [nan, v]: NaN, or the integer v.  An object keyed  *)
(* by column bucket is a function from a finite set of integers; a         *)
(* nullable object is a sequence of length 0 (null) or 1.                  *)
(***************************************************************************)
EXTENDS Integers, Sequences, FiniteSets, TLC

\* ------------------------------------------------------------------------
\* Bounds of the model
\* ------------------------------------------------------------------------

\* the largest number of body rows (between header and footer) of a page
MaxBody == 3

\* the largest number of pages of a document
MaxPages == 3

\* the largest number of elements of an array argument
MaxDocs == 2

\* ------------------------------------------------------------------------
\* JavaScript values
\* ------------------------------------------------------------------------

Undefined == "<undefined>"

Null == "<null>"

JsTrue == "<true>"

JsFalse == "<false>"

\* ToBoolean on the values above
Truthy(x) == x \notin {Undefined, Null, JsFalse, ""}

\* a || b
Or(a, b) == IF Truthy(a) THEN a ELSE b

\* !a
Not(a) == IF Truthy(a) THEN JsFalse ELSE JsTrue

NaN == [nan |-> TRUE, v |-> 0]

Num(n) == [nan |-> FALSE, v |-> n]

NumberIsNaN(x) == x.nan

\* a - b on numbers
Minus(a, b) == IF a.nan \/ b.nan THEN NaN ELSE Num(a.v - b.v)

\* v[k] on an object keyed by bucket: undefined for a missing key
Get(v, k) == IF k \in DOMAIN v THEN v[k] ELSE Undefined

\* Date.parse on the texts of the model's pages, in days since the epoch
\* (the local-time date forms "MM/DD/YYYY" and "M/D/YYYY" of one day give
\* the same timestamp); every other text, and undefined, gives NaN.
DateParse(s) ==
    CASE s = "01/05/2024" -> Num(19727)
      [] s = "01/02/2024" -> Num(19724)
      [] s = "1/2/2024"   -> Num(19724)
      [] s = "12/30/2023" -> Num(19721)
      [] OTHER            -> NaN

\* String.prototype.trim on the texts of the model's pages
Trim(s) ==
    CASE s = " "             -> ""
      [] s = "   "           -> ""
      [] s = " Coffee Shop " -> "Coffee Shop"
      [] OTHER               -> s

\* String.prototype.toLowerCase on the header texts of the model's pages
ToLowerCase(s) ==
    CASE s = "Statement"           -> "statement"
      [] s = "STATEMENT"           -> "statement"
      [] s = "Apple Card Customer" -> "apple card customer"
      [] s = "APPLE CARD CUSTOMER" -> "apple card customer"
      [] s = "Summary"             -> "summary"
      [] s = "Goldman Sachs Bank"  -> "goldman sachs bank"
      [] OTHER                     -> s

\* x?.toLowerCase()
OptToLowerCase(x) == IF x \in {Undefined, Null} THEN Undefined ELSE ToLowerCase(x)

\* Math.round(t / d) for a coordinate t and a positive divisor d, both in
\* tenths of a unit: floor(t/d + 1/2)
RoundDiv(t, d) == (2 * t + d) \div (2 * d)

Min(S) == CHOOSE m \in S : \A k \in S : m <= k

\* ------------------------------------------------------------------------
\* lib/reverse.js
\* ------------------------------------------------------------------------

Swap(arr, i, j) == [arr EXCEPT ![i] = arr[j], ![j] = arr[i]]

RECURSIVE ReverseLoop(_, _, _)
\* the loop of reverse from index i (0-based) up to mid
ReverseLoop(arr, i, mid) ==
    IF i < mid
    THEN ReverseLoop(Swap(arr, i + 1, Len(arr) - i), i + 1, mid)
    ELSE arr

reverse(arr) == ReverseLoop(arr, 0, Len(arr) \div 2)

\* ------------------------------------------------------------------------
\* lib/parse.js: grouping of a page's items into rows
\* ------------------------------------------------------------------------

\* An item of content.items is [str, transform4, transform5], the two
\* coordinates in tenths of a unit.  The object o is the sequence of its
\* entries [key, val] in insertion order.

HasKey(o, y) == \E k \in 1..Len(o) : o[k].key = y

IndexOfKey(o, y) == CHOOSE k \in 1..Len(o) : o[k].key = y

\* o[y][x] = str, creating o[y] when it is missing
Put(o, y, x, str) ==
    IF HasKey(o, y)
    THEN LET k == IndexOfKey(o, y)
             old == o[k].val
             new == [c \in (DOMAIN old) \cup {x} |-> IF c = x THEN str ELSE old[c]]
         IN [o EXCEPT ![k].val = new]
    ELSE Append(o, [key |-> y, val |-> [c \in {x} |-> str]])

RECURSIVE GroupItems(_, _, _)
\* the loop over content.items, from item k on
GroupItems(items, k, o) ==
    IF k > Len(items) THEN o
    ELSE LET item == items[k]
             str == Trim(item.str)
             x == RoundDiv(item.transform4, 50)
             y == RoundDiv(item.transform5, 10)
         IN IF str = "" THEN GroupItems(items, k + 1, o)
            ELSE GroupItems(items, k + 1, Put(o, y, x, str))

RECURSIVE SortedKeys(_)
\* the keys of S in ascending numeric order
SortedKeys(S) ==
    IF S = {} THEN <<>>
    ELSE LET m == Min(S) IN <<m>> \o SortedKeys(S \ {m})

\* Object.values(o): the integer-index keys (0 and up) in ascending numeric
\* order, then every other key (a negative number is such a key) in
\* insertion order
ObjectValues(o) ==
    LET idx == {o[k].key : k \in {j \in 1..Len(o) : o[j].key >= 0}}
        asc == SortedKeys(idx)
        first == [k \in 1..Len(asc) |-> o[IndexOfKey(o, asc[k])].val]
        rest == SelectSeq(o, LAMBDA e : e.key < 0)
    IN first \o [k \in 1..Len(rest) |-> rest[k].val]

\* Object.values(v)[0] of a row whose buckets are all 0 or more
FirstValue(v) == v[Min(DOMAIN v)]

\* Object.keys(v).length
NumKeys(v) == Cardinality(DOMAIN v)

\* ------------------------------------------------------------------------
\* State
\* ------------------------------------------------------------------------

VARIABLES
    content,     \* processPageContent: content.items of the page
    pc,          \* processPageContent: "entry", "loop", "returned" or "threw"
    rows,        \* processPageContent: the body rows
    index,       \* processPageContent: the number of body rows processed
    results,     \* processPageContent: results
    row,         \* processPageContent: row (<<>> is null)
    type,        \* processPageContent: type (under Spec, as the last call left it)
    opened,      \* history: the indices of the rows that created a transaction
    pushedFrom,  \* history: for each element of results, the index of its row
    rowFrom,     \* history: the index of the row that created row (0: none)
    src,         \* main parse: the argument
    mainPc,      \* main parse: "start", the operation awaited ("getDocument",
                 \* "getPage", "getTextContent"), "resolved" or "rejected"
    statements,  \* main parse: statements
    i,           \* main parse: i, the 0-based index of the statement
    mainResults, \* main parse: results
    doc,         \* document parse: doc (<<>> before the first is decoded)
    pageIndex,   \* document parse: i, the argument of doc.getPage
    docResults,  \* document parse: results
    returned,    \* main parse: the value the promise resolved with
    error,       \* main parse: the failure the promise rejected with
    decoded,     \* history: the statement indices given to pdf.getDocument
    retrieved,   \* history: the <<statement index, page number>> given to getPage
    emitted,     \* history: the transactions of the pages processed, in order
    failure,     \* history: the operation that failed ("none" while none has)
    inFlight,    \* history: the asynchronous operations begun and not yet settled
    parsed,      \* history: the statement indices whose document parse returned
    processed    \* history: the <<statement index, page number>> whose content
                 \* processPageContent returned for

pageVars == <<content, pc, rows, index, results, row, type, opened, pushedFrom, rowFrom>>

mainVars == <<src, mainPc, statements, i, mainResults, doc, pageIndex, docResults,
              returned, error, decoded, retrieved, emitted, failure,
              inFlight, parsed, processed>>

vars == <<pageVars, mainVars>>

\* ------------------------------------------------------------------------
\* lib/parse.js: processPageContent
\* ------------------------------------------------------------------------

\* `!text?.toLowerCase() === ident` as JavaScript evaluates it: the unary !
\* applies to the lowered text first, and the boolean it yields is compared
\* with the identifier string by ===
HeaderCheckFails(text, ident) == Not(OptToLowerCase(text)) = ident

\* Prepare with the row-count check off by one (`rows.length < 2`)
PrepareNeedsTwoRows(items) ==
    LET all == reverse(ObjectValues(GroupItems(items, 1, <<>>)))
    IN IF Len(all) < 2
       THEN [outcome |-> "returned", rows |-> <<>>]
       ELSE LET kept == SubSeq(all, 1, Len(all) - 2)
                header == SubSeq(kept, 1, IF Len(kept) < 3 THEN Len(kept) ELSE 3)
                body == SubSeq(kept, 4, Len(kept))
            IN IF Len(header) < 2
               THEN [outcome |-> "threw", rows |-> <<>>]
               ELSE IF HeaderCheckFails(FirstValue(header[1]), "statement")
                    THEN [outcome |-> "returned", rows |-> <<>>]
                    ELSE IF HeaderCheckFails(FirstValue(header[2]), "apple card customer")
                         THEN [outcome |-> "returned", rows |-> <<>>]
                         ELSE [outcome |-> "loop", rows |-> body]

\* The part of processPageContent before the row loop: grouping, the
\* row-count check, the footer and header removal and the header checks.
\* outcome is "returned" (the page is skipped), "threw" (a TypeError) or
\* "loop" (rows holds the body rows to classify).
Prepare(items) ==
    LET all == reverse(ObjectValues(GroupItems(items, 1, <<>>)))
    IN IF Len(all) < 3
       THEN [outcome |-> "returned", rows |-> <<>>]
       ELSE LET kept == SubSeq(all, 1, Len(all) - 2)
                header == SubSeq(kept, 1, IF Len(kept) < 3 THEN Len(kept) ELSE 3)
                body == SubSeq(kept, 4, Len(kept))
            IN IF Len(header) < 2
               THEN \* Object.values(header[1]) with header[1] undefined
                    [outcome |-> "threw", rows |-> <<>>]
               ELSE IF HeaderCheckFails(FirstValue(header[1]), "statement")
                    THEN [outcome |-> "returned", rows |-> <<>>]
                    ELSE IF HeaderCheckFails(FirstValue(header[2]), "apple card customer")
                         THEN [outcome |-> "returned", rows |-> <<>>]
                         ELSE [outcome |-> "loop", rows |-> body]

\* Classify with the date read as `v[7] || v[9]`
ClassifyBucket7First(v) ==
    LET dateCheck == DateParse(Get(v, 7))
        description == Get(v, 21)
        date == Or(Get(v, 7), Get(v, 9))
    IN IF NumberIsNaN(dateCheck) /\ NumKeys(v) = 1 THEN "type"
       ELSE IF ~Truthy(description) THEN "nodescription"
       ELSE IF NumKeys(v) = 1 THEN "continuation"
       ELSE IF NumberIsNaN(DateParse(date)) THEN "baddate"
       ELSE "transaction"

\* Classify without the check of the date
ClassifyAnyDate(v) ==
    LET dateCheck == DateParse(Get(v, 7))
        description == Get(v, 21)
    IN IF NumberIsNaN(dateCheck) /\ NumKeys(v) = 1 THEN "type"
       ELSE IF ~Truthy(description) THEN "nodescription"
       ELSE IF NumKeys(v) = 1 THEN "continuation"
       ELSE "transaction"

\* The branch of the row loop that row v takes
Classify(v) ==
    LET dateCheck == DateParse(Get(v, 7))
        description == Get(v, 21)
        date == Or(Get(v, 9), Get(v, 7))
    IN IF NumberIsNaN(dateCheck) /\ NumKeys(v) = 1 THEN "type"
       ELSE IF ~Truthy(description) THEN "nodescription"
       ELSE IF NumKeys(v) = 1 THEN "continuation"
       ELSE IF NumberIsNaN(DateParse(date)) THEN "baddate"
       ELSE "transaction"

\* NewRow with the amount buckets read from the left, 107 first
NewRowAmountFromLeft(v, type_) ==
    [Date |-> Or(Get(v, 9), Get(v, 7)),
     Type |-> type_,
     Description |-> Get(v, 21),
     DailyCashPercent |-> Or(Get(v, 85), Get(v, 83)),
     DailyCashDollar |-> Get(v, 89),
     Amount |-> Or(Or(Or(Or(Get(v, 107), Get(v, 108)), Get(v, 109)), Get(v, 110)), Get(v, 111))]

\* The object literal of a new transaction row
NewRow(v, type_) ==
    [Date |-> Or(Get(v, 9), Get(v, 7)),
     Type |-> type_,
     Description |-> Get(v, 21),
     DailyCashPercent |-> Or(Get(v, 85), Get(v, 83)),
     DailyCashDollar |-> Get(v, 89),
     Amount |-> Or(Or(Or(Or(Get(v, 111), Get(v, 110)), Get(v, 109)), Get(v, 108)), Get(v, 107))]

\* LoopStart with the type left as the page before it left it
LoopStartKeepsType == [results |-> <<>>, row |-> <<>>, type |-> type, threw |-> FALSE]

\* The state of the row loop before any row
LoopStart == [results |-> <<>>, row |-> <<>>, type |-> Null, threw |-> FALSE]

\* RowStep that pushes the pending row when a row has no description
RowStepSkipFinalizes(st, v) ==
    LET kind == Classify(v)
    IN CASE kind = "type" ->
              [results |-> st.results \o st.row, row |-> <<>>,
               type |-> Get(v, 7), threw |-> FALSE]
         [] kind = "nodescription" ->
              [results |-> st.results \o st.row, row |-> <<>>,
               type |-> st.type, threw |-> FALSE]
         [] kind = "continuation" ->
              IF st.row = <<>>
              THEN [st EXCEPT !.threw = TRUE]
              ELSE [st EXCEPT !.row[1].Description = @ \o "\n" \o Get(v, 21)]
         [] kind = "baddate" -> st
         [] OTHER ->
              [results |-> st.results \o st.row, row |-> <<NewRow(v, st.type)>>,
               type |-> st.type, threw |-> FALSE]

\* RowStep without `row = null` after the push of a type-marker row
RowStepKeepsRow(st, v) ==
    LET kind == Classify(v)
    IN CASE kind = "type" ->
              [results |-> st.results \o st.row, row |-> st.row,
               type |-> Get(v, 7), threw |-> FALSE]
         [] kind = "nodescription" -> st
         [] kind = "continuation" ->
              IF st.row = <<>>
              THEN [st EXCEPT !.threw = TRUE]
              ELSE [st EXCEPT !.row[1].Description = @ \o "\n" \o Get(v, 21)]
         [] kind = "baddate" -> st
         [] OTHER ->
              [results |-> st.results \o st.row, row |-> <<NewRow(v, st.type)>>,
               type |-> st.type, threw |-> FALSE]

\* One iteration of the row loop on row v, from loop state st
RowStep(st, v) ==
    LET kind == Classify(v)
    IN CASE kind = "type" ->
              [results |-> st.results \o st.row, row |-> <<>>,
               type |-> Get(v, 7), threw |-> FALSE]
         [] kind = "nodescription" -> st
         [] kind = "continuation" ->
              IF st.row = <<>>
              THEN \* row.Description with row null
                   [st EXCEPT !.threw = TRUE]
              ELSE [st EXCEPT !.row[1].Description = @ \o "\n" \o Get(v, 21)]
         [] kind = "baddate" -> st
         [] OTHER ->
              [results |-> st.results \o st.row, row |-> <<NewRow(v, st.type)>>,
               type |-> st.type, threw |-> FALSE]

\* The push of the pending row after the loop
FinalPush(st) == st.results \o st.row

RECURSIVE RowLoop(_, _, _)
\* the row loop from row k on
RowLoop(rows_, k, st) ==
    IF st.threw \/ k > Len(rows_) THEN st
    ELSE RowLoop(rows_, k + 1, RowStep(st, rows_[k]))

\* processPageContent(content): [threw, results], and the type the call
\* ended with
ProcessPageContent(items) ==
    LET p == Prepare(items)
    IN IF p.outcome = "threw" THEN [threw |-> TRUE, results |-> <<>>, type |-> Null]
       ELSE IF p.outcome = "returned" THEN [threw |-> FALSE, results |-> <<>>, type |-> Null]
       ELSE LET st == RowLoop(p.rows, 1, LoopStart)
            IN IF st.threw THEN [threw |-> TRUE, results |-> <<>>, type |-> st.type]
               ELSE [threw |-> FALSE, results |-> FinalPush(st), type |-> st.type]

\* ------------------------------------------------------------------------
\* Pages of the model
\* ------------------------------------------------------------------------

\* A page is written as its rows in reading order, each row a function from
\* column bucket to text; ItemsOf turns it into the content.items that the
\* rendering engine delivers for it.

StatementRow == 7 :> "Statement"

StatementUpperRow == 7 :> "STATEMENT"

SummaryRow == 7 :> "Summary"

CustomerRow == (7 :> "Apple Card Customer") @@ (90 :> "Jan 1 - Jan 31, 2024")

BankRow == 7 :> "Goldman Sachs Bank"

ColumnsRow == (7 :> "Date") @@ (21 :> "Description") @@ (85 :> "Daily Cash") @@ (111 :> "Amount")

FooterRows == << 7 :> "Apple Card is issued by Goldman Sachs Bank USA", 60 :> "Page 2 /5" >>

\* the header rows: two that identify a statement page, two that do not
Headers ==
    { <<StatementRow, CustomerRow, ColumnsRow>>,
      <<StatementUpperRow, CustomerRow, ColumnsRow>>,
      <<SummaryRow, CustomerRow, ColumnsRow>>,
      <<StatementRow, BankRow, ColumnsRow>> }

\* the body rows: type markers, a description fragment alone, transactions
\* with the date in bucket 7 or 9 and the amount in different buckets, rows
\* without description or without parseable date, a row whose bucket 9 does
\* not parse while its bucket 7 does, and a row with values in several of
\* the amount and daily-cash buckets and in a bucket that feeds no field
BodyRows ==
    { 7 :> "Purchases",
      7 :> "Payments",
      21 :> "Store #1234",
      (7 :> "01/05/2024") @@ (21 :> " Coffee Shop ") @@ (111 :> "4.50"),
      (9 :> "01/02/2024") @@ (21 :> "Grocery") @@ (83 :> "2%") @@ (89 :> "0.24") @@ (110 :> "12.00"),
      (7 :> "1/2/2024") @@ (21 :> "ACH Deposit") @@ (107 :> "-100.00"),
      (7 :> "01/05/2024") @@ (111 :> "4.50"),
      (7 :> "Pending") @@ (21 :> "Grocery"),
      (7 :> "01/05/2024") @@ (9 :> "n/a") @@ (21 :> "Transit"),
      (7 :> "12/30/2023") @@ (21 :> "Refund") @@ (83 :> "1%") @@ (85 :> "3%") @@ (89 :> "0.30")
          @@ (100 :> "ref 77") @@ (108 :> "-10.00") @@ (110 :> "-1.00"),
      7 :> "12/30/2023" }

RECURSIVE SeqsUpTo(_, _)
\* the sequences over S of length at most n
SeqsUpTo(S, n) ==
    IF n = 0 THEN {<<>>}
    ELSE LET shorter == SeqsUpTo(S, n - 1)
         IN shorter \cup {Append(q, e) : q \in {r \in shorter : Len(r) = n - 1}, e \in S}

\* the items of one row at row key y, in ascending bucket order, each a
\* little off the grid
RowItems(r, y) ==
    LET cols == SortedKeys(DOMAIN r)
    IN [k \in 1..Len(cols) |->
          [str |-> r[cols[k]], transform4 |-> 50 * cols[k] + 12, transform5 |-> 10 * y + 3]]

RECURSIVE ItemsFrom(_, _)
\* the items of the rows from row k on, the last row at row key 1
ItemsFrom(rs, k) ==
    IF k > Len(rs) THEN <<>>
    ELSE RowItems(rs[k], Len(rs) - k + 1) \o ItemsFrom(rs, k + 1)

\* content.items of a page with rows rs: a blank fragment above the first
\* row, then the rows top to bottom
ItemsOf(rs) ==
    <<[str |-> "   ", transform4 |-> 362, transform5 |-> 10 * (Len(rs) + 1)]>> \o ItemsFrom(rs, 1)

\* pages with header, body and footer
FullPages == {ItemsOf(h \o b \o FooterRows) : h \in Headers, b \in SeqsUpTo(BodyRows, MaxBody)}

\* pages of 0 to 4 rows
ShortPages == {ItemsOf(SubSeq(h \o FooterRows, 1, n)) : h \in Headers, n \in 0..4}

RECURSIVE ItemsFromAt(_, _, _)
\* the items of the rows from row k on, the last row at row key bottom
ItemsFromAt(rs, k, bottom) ==
    IF k > Len(rs) THEN <<>>
    ELSE RowItems(rs[k], bottom + Len(rs) - k) \o ItemsFromAt(rs, k + 1, bottom)

\* content.items of a page with rows rs, the last row at row key bottom,
\* delivered top to bottom or (backward) bottom to top
ItemsAt(rs, bottom, backward) ==
    LET forward == ItemsFromAt(rs, 1, bottom)
    IN IF backward THEN [k \in 1..Len(forward) |-> forward[Len(forward) + 1 - k]]
       ELSE forward

\* a third header row and a first footer row that read like a transaction
TotalsRow == (7 :> "01/05/2024") @@ (21 :> "Total") @@ (111 :> "99.00")

\* the lowest row key of a placed page
Bottoms == {1, 0, -1, -3}

\* pages placed anywhere on the y axis and delivered in either order, with
\* header and footer rows that read like a type marker or a transaction
PlacedPages ==
    {ItemsAt(h \o b \o f, bottom, backward) :
        h \in {<<StatementRow, CustomerRow, ColumnsRow>>, <<StatementRow, CustomerRow, TotalsRow>>},
        b \in SeqsUpTo(BodyRows, 1),
        f \in {FooterRows, <<TotalsRow, 60 :> "Page 2 /5">>},
        bottom \in Bottoms,
        backward \in BOOLEAN}

PageInputs == FullPages \cup ShortPages \cup PlacedPages

\* ------------------------------------------------------------------------
\* processPageContent, row by row
\* ------------------------------------------------------------------------

PageInit ==
    /\ content \in PageInputs
    /\ pc = "entry"
    /\ rows = <<>>
    /\ index = 0
    /\ results = <<>>
    /\ row = <<>>
    /\ type = Null
    /\ opened = <<>>
    /\ pushedFrom = <<>>
    /\ rowFrom = 0
    /\ src = [kind |-> "other", elems |-> <<>>]
    /\ mainPc = "unused"
    /\ statements = <<>>
    /\ i = 0
    /\ mainResults = <<>>
    /\ doc = <<>>
    /\ pageIndex = 0
    /\ docResults = <<>>
    /\ returned = <<>>
    /\ error = "none"
    /\ decoded = <<>>
    /\ retrieved = <<>>
    /\ emitted = <<>>
    /\ failure = "none"
    /\ inFlight = {}
    /\ parsed = <<>>
    /\ processed = <<>>

\* lines 38-88: up to the row loop
Enter ==
    /\ pc = "entry"
    /\ LET p == Prepare(content)
       IN /\ pc' = p.outcome
          /\ rows' = p.rows
    /\ UNCHANGED <<content, index, results, row, type, opened, pushedFrom, rowFrom, mainVars>>

\* lines 90-142: one iteration of the row loop
Iterate ==
    /\ pc = "loop"
    /\ index < Len(rows)
    /\ LET v == rows[index + 1]
           st == RowStep([results |-> results, row |-> row, type |-> type, threw |-> FALSE], v)
           creates == Classify(v) = "transaction"
       IN /\ pc' = IF st.threw THEN "threw" ELSE "loop"
          /\ index' = index + 1
          /\ results' = st.results
          /\ row' = st.row
          /\ type' = st.type
          /\ opened' = IF creates THEN Append(opened, index + 1) ELSE opened
          /\ pushedFrom' = IF Len(st.results) > Len(results)
                           THEN Append(pushedFrom, rowFrom) ELSE pushedFrom
          /\ rowFrom' = IF creates THEN index + 1
                        ELSE IF st.row = <<>> THEN 0 ELSE rowFrom
    /\ UNCHANGED <<content, rows, mainVars>>

\* lines 144-150: the final push and the return
Return ==
    /\ pc = "loop"
    /\ index = Len(rows)
    /\ pc' = "returned"
    /\ results' = FinalPush([results |-> results, row |-> row])
    /\ pushedFrom' = IF row # <<>> THEN Append(pushedFrom, rowFrom) ELSE pushedFrom
    /\ UNCHANGED <<content, rows, index, row, type, opened, rowFrom, mainVars>>

PageNext == Enter \/ Iterate \/ Return

SpecPage == PageInit /\ [][PageNext]_vars

\* ------------------------------------------------------------------------
\* lib/main.js: comparator, validateInput; Array.prototype.sort
\* ------------------------------------------------------------------------

\* comparator with its operands exchanged
comparatorDescending(a, b) == Minus(DateParse(b.Date), DateParse(a.Date))

comparator(a, b) == Minus(DateParse(a.Date), DateParse(b.Date))

\* the number the sort takes from comparator: NaN counts as 0
SortCompare(a, b) == LET c == comparator(a, b) IN IF c.nan THEN 0 ELSE c.v

RECURSIVE InsertInto(_, _, _)
\* x put into the sorted sequence arr, scanning down from position k: x goes
\* right after the last element that does not compare greater than x
InsertInto(arr, k, x) ==
    IF k >= 1 /\ SortCompare(arr[k], x) > 0
    THEN InsertInto(arr, k - 1, x)
    ELSE SubSeq(arr, 1, k) \o <<x>> \o SubSeq(arr, k + 1, Len(arr))

RECURSIVE SortFrom(_, _, _)
\* the elements of arr from position k on, put one by one into acc
SortFrom(arr, k, acc) ==
    IF k > Len(arr) THEN acc
    ELSE SortFrom(arr, k + 1, InsertInto(acc, Len(acc), arr[k]))

\* arr.sort(comparator): a stable sort
Sort(arr) == SortFrom(arr, 1, <<>>)

\* validateInput that looks at the first element of an array only
validateInputFirstOnly(s) ==
    IF s.kind = "Uint8Array"
    THEN [threw |-> FALSE, value |-> <<s.elems[1]>>]
    ELSE IF s.kind = "Array"
         THEN IF Len(s.elems) > 0 /\ ~s.elems[1].isUint8Array
              THEN [threw |-> TRUE, value |-> <<>>]
              ELSE [threw |-> FALSE, value |-> s.elems]
         ELSE [threw |-> TRUE, value |-> <<>>]

\* validateInput(src): [threw, value].  src is [kind, elems]: a Uint8Array
\* (elems holds it), an Array of elems, or anything else; an element is
\* [isUint8Array, pages], pages being what the bytes decode to.
validateInput(s) ==
    IF s.kind = "Uint8Array"
    THEN [threw |-> FALSE, value |-> <<s.elems[1]>>]
    ELSE IF s.kind = "Array"
         THEN IF ~(\A k \in 1..Len(s.elems) : s.elems[k].isUint8Array)
              THEN [threw |-> TRUE, value |-> <<>>]
              ELSE [threw |-> FALSE, value |-> s.elems]
         ELSE [threw |-> TRUE, value |-> <<>>]

\* ------------------------------------------------------------------------
\* Documents of the model
\* ------------------------------------------------------------------------

MarkerPurchases == 7 :> "Purchases"

MarkerPayments == 7 :> "Payments"

CoffeeRow == (7 :> "01/05/2024") @@ (21 :> " Coffee Shop ") @@ (111 :> "4.50")

GroceryRow == (9 :> "01/02/2024") @@ (21 :> "Grocery") @@ (83 :> "2%") @@ (89 :> "0.24") @@ (110 :> "12.00")

DepositRow == (7 :> "1/2/2024") @@ (21 :> "ACH Deposit") @@ (107 :> "-100.00")

BooksRow == (7 :> "12/30/2023") @@ (21 :> "Books") @@ (85 :> "3%") @@ (89 :> "0.90") @@ (111 :> "30.00")

StatementHeader == <<StatementRow, CustomerRow, ColumnsRow>>

\* the pages a document is made of, by name
PageNames == <<"cover", "purchases", "payments", "stub">>

\* content.items of the page of that name: a cover page of 2 rows, two
\* statement pages, the second with a transaction above its type marker, and
\* a page of 3 rows
PageContent(name) ==
    CASE name = "cover" -> ItemsOf(<<7 :> "Apple Card", 7 :> "January 2024">>)
      [] name = "purchases" ->
            ItemsOf(StatementHeader \o <<MarkerPurchases, CoffeeRow, GroceryRow>> \o FooterRows)
      [] name = "payments" ->
            ItemsOf(StatementHeader \o <<BooksRow, MarkerPayments, DepositRow>> \o FooterRows)
      [] OTHER -> ItemsOf(<<SummaryRow, BankRow, 60 :> "Page 5 /5">>)

\* the n pages that follow PageNames in turn from position off on
CyclePages(off, n) == [k \in 1..n |-> PageNames[((off + k - 1) % Len(PageNames)) + 1]]

Buffers ==
    {[isUint8Array |-> TRUE, pages |-> CyclePages(off, n)] :
        off \in 0..(Len(PageNames) - 1), n \in 0..MaxPages}

NotABuffer == [isUint8Array |-> FALSE, pages |-> <<>>]

SrcInputs ==
    {[kind |-> "Uint8Array", elems |-> <<b>>] : b \in Buffers}
    \cup {[kind |-> "Array", elems |-> e] : e \in SeqsUpTo(Buffers \cup {NotABuffer}, MaxDocs)}
    \cup {[kind |-> "other", elems |-> <<>>]}

\* ------------------------------------------------------------------------
\* lib/main.js parse and lib/parse.js parse, await by await
\* ------------------------------------------------------------------------

\* doc.getPage(n) of pdfjs-dist: pages are numbered from 1
GetPage(d, n) == d.pages[n]

\* an asynchronous operation on statement s, and on its page n (0: none)
Operation(op, s, n) == [op |-> op, stmt |-> s, page |-> n]

Init ==
    /\ src \in SrcInputs
    /\ mainPc = "start"
    /\ statements = <<>>
    /\ i = 0
    /\ mainResults = <<>>
    /\ doc = <<>>
    /\ pageIndex = 0
    /\ docResults = <<>>
    /\ returned = <<>>
    /\ error = "none"
    /\ decoded = <<>>
    /\ retrieved = <<>>
    /\ emitted = <<>>
    /\ failure = "none"
    /\ inFlight = {}
    /\ parsed = <<>>
    /\ processed = <<>>
    /\ content = <<>>
    /\ pc = "unused"
    /\ rows = <<>>
    /\ index = 0
    /\ results = <<>>
    /\ row = <<>>
    /\ type = Null
    /\ opened = <<>>
    /\ pushedFrom = <<>>
    /\ rowFrom = 0

\* main parse from the top of the loop over N statements with results res
\* and index k, fl the operations still in flight: the next pdf.getDocument,
\* or past the loop the sort and the return
StatementLoop(N, k, res, fl) ==
    /\ i' = k
    /\ IF k < N
       THEN /\ mainPc' = "getDocument"
            /\ decoded' = Append(decoded, k)
            /\ inFlight' = fl \cup {Operation("getDocument", k, 0)}
            /\ mainResults' = res
            /\ returned' = returned
       ELSE /\ mainPc' = "resolved"
            /\ decoded' = decoded
            /\ inFlight' = fl
            /\ mainResults' = Sort(res)
            /\ returned' = Sort(res)

\* document parse from the top of the page loop with results res and index
\* k, fl the operations still in flight: the next doc.getPage, or past the
\* loop the return to main parse
PageLoop(d, k, res, fl) ==
    /\ pageIndex' = k
    /\ IF k < d.numPages
       THEN /\ mainPc' = "getPage"
            /\ retrieved' = Append(retrieved, <<i, k>>)
            /\ inFlight' = fl \cup {Operation("getPage", i, k)}
            /\ docResults' = res
            /\ UNCHANGED <<i, mainResults, returned, decoded, parsed>>
       ELSE /\ retrieved' = retrieved
            /\ docResults' = res
            /\ parsed' = Append(parsed, i)
            /\ StatementLoop(Len(statements), i + 1, mainResults \o res, fl)

\* main.js 83-95: the call, up to the first await
Validate ==
    /\ mainPc = "start"
    /\ LET r == validateInput(src)
       IN IF r.threw
          THEN /\ mainPc' = "rejected"
               /\ error' = "TypeError"
               /\ UNCHANGED <<statements, i, mainResults, returned, decoded, inFlight>>
          ELSE /\ statements' = r.value
               /\ error' = error
               /\ StatementLoop(Len(r.value), 0, <<>>, inFlight)
    /\ UNCHANGED <<src, doc, pageIndex, docResults, retrieved, emitted, failure, parsed,
                   processed, pageVars>>

\* main.js 95-99, parse.js 159-173: pdf.getDocument resolves
DocumentResolved ==
    /\ mainPc = "getDocument"
    /\ LET d == [numPages |-> Len(statements[i + 1].pages), pages |-> statements[i + 1].pages]
       IN /\ doc' = <<d>>
          /\ PageLoop(d, 1, <<>>, inFlight \ {Operation("getDocument", i, 0)})
    /\ UNCHANGED <<src, statements, error, emitted, failure, processed, pageVars>>

\* main.js 103-106: pdf.getDocument rejects
DocumentRejected ==
    /\ mainPc = "getDocument"
    /\ mainPc' = "rejected"
    /\ error' = "getDocument"
    /\ failure' = "getDocument"
    /\ inFlight' = inFlight \ {Operation("getDocument", i, 0)}
    /\ UNCHANGED <<src, statements, i, mainResults, doc, pageIndex, docResults, returned,
                   decoded, retrieved, emitted, parsed, processed, pageVars>>

\* doc.getPage resolves and the next doc.getPage is begun along with
\* page.getTextContent
PageResolvedPrefetches ==
    /\ mainPc = "getPage"
    /\ mainPc' = "getTextContent"
    /\ inFlight' = (inFlight \ {Operation("getPage", i, pageIndex)})
                      \cup {Operation("getTextContent", i, pageIndex),
                            Operation("getPage", i, pageIndex + 1)}
    /\ UNCHANGED <<src, statements, i, mainResults, doc, pageIndex, docResults, returned,
                   error, decoded, retrieved, emitted, failure, parsed, processed, pageVars>>

\* parse.js 173-176: doc.getPage resolves
PageResolved ==
    /\ mainPc = "getPage"
    /\ mainPc' = "getTextContent"
    /\ inFlight' = (inFlight \ {Operation("getPage", i, pageIndex)})
                      \cup {Operation("getTextContent", i, pageIndex)}
    /\ UNCHANGED <<src, statements, i, mainResults, doc, pageIndex, docResults, returned,
                   error, decoded, retrieved, emitted, failure, parsed, processed, pageVars>>

\* doc.getPage rejects and the catch goes on with the next page
PageRejectedSkipsPage ==
    /\ mainPc = "getPage"
    /\ error' = error
    /\ failure' = "getPage"
    /\ PageLoop(doc[1], pageIndex + 1, docResults, inFlight \ {Operation("getPage", i, pageIndex)})
    /\ UNCHANGED <<src, statements, doc, emitted, processed, pageVars>>

\* parse.js 183-186, main.js 103-106: doc.getPage rejects
PageRejected ==
    /\ mainPc = "getPage"
    /\ mainPc' = "rejected"
    /\ error' = "getPage"
    /\ failure' = "getPage"
    /\ inFlight' = inFlight \ {Operation("getPage", i, pageIndex)}
    /\ UNCHANGED <<src, statements, i, mainResults, doc, pageIndex, docResults, returned,
                   decoded, retrieved, emitted, parsed, processed, pageVars>>

\* parse.js 176-187, main.js 99-115: page.getTextContent resolves
ContentResolved ==
    /\ mainPc = "getTextContent"
    /\ LET r == ProcessPageContent(PageContent(GetPage(doc[1], pageIndex)))
       IN IF r.threw
          THEN /\ mainPc' = "rejected"
               /\ error' = "processPageContent"
               /\ failure' = "processPageContent"
               /\ inFlight' = inFlight \ {Operation("getTextContent", i, pageIndex)}
               /\ UNCHANGED <<i, mainResults, pageIndex, docResults, returned, decoded,
                              retrieved, emitted, parsed, processed, type>>
          ELSE /\ error' = error
               /\ failure' = failure
               /\ emitted' = emitted \o r.results
               /\ processed' = Append(processed, <<i, pageIndex>>)
               /\ type' = r.type
               /\ PageLoop(doc[1], pageIndex + 1, docResults \o r.results,
                           inFlight \ {Operation("getTextContent", i, pageIndex)})
    /\ UNCHANGED <<src, statements, doc, content, pc, rows, index, results, row, opened,
                   pushedFrom, rowFrom>>

\* parse.js 183-186, main.js 103-106: page.getTextContent rejects
ContentRejected ==
    /\ mainPc = "getTextContent"
    /\ mainPc' = "rejected"
    /\ error' = "getTextContent"
    /\ failure' = "getTextContent"
    /\ inFlight' = inFlight \ {Operation("getTextContent", i, pageIndex)}
    /\ UNCHANGED <<src, statements, i, mainResults, doc, pageIndex, docResults, returned,
                   decoded, retrieved, emitted, parsed, processed, pageVars>>

Next ==
    \/ Validate
    \/ DocumentResolved
    \/ DocumentRejected
    \/ PageResolved
    \/ PageRejected
    \/ ContentResolved
    \/ ContentRejected

Spec == Init /\ [][Next]_vars

\* ------------------------------------------------------------------------
\* Claims about processPageContent (checked under SpecPage)
\* ------------------------------------------------------------------------

\* the rows of the page in reading order, as processPageContent groups them
ReconstructedRows == reverse(ObjectValues(GroupItems(content, 1, <<>>)))

\* the two identifying texts, compared without regard to case
HeaderIdentifies(rs) ==
    /\ ToLowerCase(FirstValue(rs[1])) = "statement"
    /\ ToLowerCase(FirstValue(rs[2])) = "apple card customer"

Max(S) == CHOOSE m \in S : \A k \in S : m >= k

\* C1: on a page of at least 3 rows whose first header text is not
\* "statement" or whose second is not "apple card customer" (without regard
\* to case), processPageContent emits no transaction, whatever the other
\* rows hold (that it does not throw either is part of C4).
C1_HeaderGatesExtraction ==
    (Len(ReconstructedRows) >= 3 /\ ~HeaderIdentifies(ReconstructedRows))
        => results = <<>>

\* a row with the description bucket alone
IsFragmentRow(v) == DOMAIN v = {21}

\* C2: when row k-1 created a transaction and row k holds the description
\* bucket alone, then after row k the pending transaction is still that of
\* row k-1, its Description extended by a line break and the text of row k,
\* no transaction was created by row k, and (when no further fragment
\* follows) the results hold exactly one record of row k-1, with the
\* extended Description.
C2_ContinuationExtendsPending ==
    /\ (pc = "loop" /\ index >= 2 /\ Classify(rows[index - 1]) = "transaction"
            /\ IsFragmentRow(rows[index]))
        => /\ row # <<>>
           /\ rowFrom = index - 1
           /\ row[1].Description = rows[index - 1][21] \o "\n" \o rows[index][21]
           /\ opened[Len(opened)] = index - 1
    /\ pc = "returned" =>
        \A k \in 2..Len(rows) :
            (/\ Classify(rows[k - 1]) = "transaction"
             /\ IsFragmentRow(rows[k])
             /\ (k < Len(rows) => ~IsFragmentRow(rows[k + 1])))
            => /\ Cardinality({j \in 1..Len(results) : pushedFrom[j] = k - 1}) = 1
               /\ \A j \in 1..Len(results) :
                    pushedFrom[j] = k - 1 =>
                        results[j].Description = rows[k - 1][21] \o "\n" \o rows[k][21]

\* a row with exactly one column whose value is no parseable date
IsTypeMarkerRow(v) == NumKeys(v) = 1 /\ NumberIsNaN(DateParse(FirstValue(v)))

\* the sole value of the last type-marker row before row k; null without one
TypeInForce(k) ==
    LET before == {j \in 1..(k - 1) : IsTypeMarkerRow(rows[j])}
    IN IF before = {} THEN Null ELSE FirstValue(rows[Max(before)])

\* C3: every transaction of the page's results has as Type the sole value of
\* the last type-marker row before the row that created it, whatever bucket
\* that value is in.
C3_TypeCarry ==
    pc = "returned" =>
        \A j \in 1..Len(results) : results[j].Type = TypeInForce(pushedFrom[j])

\* C4: processPageContent never throws, whatever the page holds.
C4_NeverThrows == pc # "threw"

IsNonEmptyString(x) == x \notin {Undefined, Null, JsTrue, JsFalse, ""}

IsStringOrNull(x) == x \notin {Undefined, JsTrue, JsFalse}

WellFormed(t) ==
    /\ IsNonEmptyString(t.Date)
    /\ IsNonEmptyString(t.Description)
    /\ IsStringOrNull(t.Type)
    /\ IsStringOrNull(t.DailyCashPercent)
    /\ IsStringOrNull(t.DailyCashDollar)
    /\ IsStringOrNull(t.Amount)

\* C5: in every transaction record of the page, Date and Description are
\* non-empty strings and Type, Daily Cash (%), Daily Cash ($) and Amount are
\* each a string or null, never undefined.
C5_RecordsWellFormed ==
    \A j \in 1..Len(results) : WellFormed(results[j])

\* the index of the row that created the pending transaction, if any
PendingFrom == IF row = <<>> THEN <<>> ELSE <<rowFrom>>

\* C6: the records of results, followed by the pending transaction, are those
\* of the rows that created a transaction, one each and in row order, so the
\* pending transaction is not in results; on return no transaction is
\* pending outside results, and results holds one record per creating row,
\* in row order.
C6_ExactlyOnceInOrder ==
    /\ Len(pushedFrom) = Len(results)
    /\ pc = "loop" => pushedFrom \o PendingFrom = opened
    /\ pc = "returned" => pushedFrom = opened
    /\ \A j \in 1..Len(results) :
         /\ pushedFrom[j] \in 1..Len(rows)
         /\ results[j] = NewRow(rows[pushedFrom[j]], results[j].Type)

\* a transaction pushed by a type-marker row and another by the final push
C6_Witness ==
    /\ pc = "returned"
    /\ Len(rows) = 3
    /\ Classify(rows[2]) = "type"
    /\ opened = <<1, 3>>
    /\ Len(results) = 2

\* the positions in content of the fragments that are not blank
NonBlank == {k \in 1..Len(content) : Trim(content[k].str) # ""}

\* the rounded y of fragment k, and its column bucket
RowKeyOf(k) == RoundDiv(content[k].transform5, 10)

BucketOf(k) == RoundDiv(content[k].transform4, 50)

\* the distinct rounded y values of the page
RowKeys == {RowKeyOf(k) : k \in NonBlank}

\* the row at rounded y: for each bucket the text of the last fragment there
RowAt(y) ==
    LET here == {k \in NonBlank : RowKeyOf(k) = y}
    IN [c \in {BucketOf(k) : k \in here} |->
          Trim(content[Max({k \in here : BucketOf(k) = c})].str)]

RECURSIVE Descending(_)
\* the elements of S from the greatest down
Descending(S) ==
    IF S = {} THEN <<>>
    ELSE LET m == Max(S) IN <<m>> \o Descending(S \ {m})

\* the rows of the page from the greatest rounded y down
ReadingOrderRows ==
    LET ys == Descending(RowKeys)
    IN [k \in 1..Len(ys) |-> RowAt(ys[k])]

\* C12: a page whose fragments group into fewer than 3 rows (a page without
\* any non-blank fragment too) returns no transaction and does not throw.
C12_ShortPageYieldsNothing ==
    Cardinality(RowKeys) < 3 =>
        /\ pc \in {"entry", "returned"}
        /\ results = <<>>
        /\ row = <<>>

\* a page of 2 rows, returned
C12_Witness ==
    /\ pc = "returned"
    /\ Cardinality(RowKeys) = 2
    /\ results = <<>>

\* C13: whatever the order of delivery and the sign of the rounded y values,
\* the reconstructed rows are one row per distinct rounded y, from the
\* greatest y down, and the row loop gets rows 4 .. n-2 of that order.
C13_RowsInReadingOrder ==
    /\ pc # "entry" => ReconstructedRows = ReadingOrderRows
    /\ pc = "loop" =>
          rows = SubSeq(ReadingOrderRows, 4, Len(ReadingOrderRows) - 2)

IsParseable(x) == ~NumberIsNaN(DateParse(x))

\* a row of several columns with a description value
IsDatedRowCandidate(v) == NumKeys(v) > 1 /\ Truthy(Get(v, 21))

\* row k created the pending transaction, and nothing came after it
JustCreated(k) == row # <<>> /\ rowFrom = k /\ opened # <<>> /\ opened[Len(opened)] = k

\* C14 as claimed: a row of several columns with a description creates a
\* transaction whenever bucket 9 or bucket 7 holds a parseable date, with
\* Date from a bucket that parses, and is skipped only when neither does.
C14_DateFromEitherBucket ==
    (pc = "loop" /\ index >= 1 /\ IsDatedRowCandidate(rows[index])) =>
        LET v == rows[index]
        IN IF IsParseable(Get(v, 9)) \/ IsParseable(Get(v, 7))
           THEN JustCreated(index) /\ IsParseable(row[1].Date)
           ELSE ~JustCreated(index)

\* the date the row loop reads: bucket 9 when it holds a text, else bucket 7
DateCandidate(v) ==
    IF 9 \in DOMAIN v /\ v[9] # "" THEN v[9] ELSE Get(v, 7)

\* C14 amended: a row of several columns with a description creates a
\* transaction exactly when its date candidate (bucket 9 when it holds a
\* text, else bucket 7) is a parseable date, with Date that candidate; it is
\* skipped otherwise, also when bucket 9 does not parse and bucket 7 does.
C14_DateFromFirstPresentBucket ==
    (pc = "loop" /\ index >= 1 /\ IsDatedRowCandidate(rows[index])) =>
        LET v == rows[index]
        IN IF IsParseable(DateCandidate(v))
           THEN JustCreated(index) /\ row[1].Date = DateCandidate(v)
           ELSE ~JustCreated(index) /\ index \notin {opened[j] : j \in 1..Len(opened)}

\* a row skipped although its bucket 7 holds a parseable date
C14_Witness ==
    /\ pc = "loop"
    /\ index >= 1
    /\ IsDatedRowCandidate(rows[index])
    /\ ~IsParseable(Get(rows[index], 9))
    /\ 9 \in DOMAIN rows[index]
    /\ IsParseable(Get(rows[index], 7))
    /\ ~JustCreated(index)

\* a row the loop skips: no type marker and no description value, or a
\* description, several columns and no parseable date
IsSkippedRow(v) ==
    \/ ~IsTypeMarkerRow(v) /\ ~Truthy(Get(v, 21))
    \/ Truthy(Get(v, 21)) /\ NumKeys(v) > 1 /\ ~IsParseable(DateCandidate(v))

\* rs without its element k
Without(rs, k) == SubSeq(rs, 1, k - 1) \o SubSeq(rs, k + 1, Len(rs))

\* the transactions of a page whose body rows are rs
TransactionsOf(rs) ==
    FinalPush(RowLoop(rs, 1, [results |-> <<>>, row |-> <<>>, type |-> Null, threw |-> FALSE]))

\* C15: an iteration on a skipped row leaves results, the pending
\* transaction and the type as they were, and the transactions returned for
\* the page are those of the same body rows without the skipped row.
C15_SkippedRowsHaveNoEffect ==
    /\ [][(pc = "loop" /\ index < Len(rows) /\ IsSkippedRow(rows[index + 1]))
            => (pc' = "loop" /\ results' = results /\ row' = row /\ type' = type)]_vars
    /\ [](pc = "returned" =>
            \A k \in 1..Len(rows) :
                IsSkippedRow(rows[k]) => results = TransactionsOf(Without(rows, k)))

\* a skipped row behind a pending transaction
C15_Witness ==
    /\ pc = "loop"
    /\ index >= 2
    /\ IsSkippedRow(rows[index])
    /\ row # <<>>
    /\ rowFrom = index - 1

\* a type-marker row with its text in bucket 7
IsTypeRowInBucket7(v) == DOMAIN v = {7} /\ ~IsParseable(v[7])

\* C16: a row with the description bucket alone that comes first in the
\* body, or right after a type-marker row, does not throw and leaves no
\* transaction pending and the type as it was: null for a first row, the
\* text of the type-marker row otherwise.
C16_OrphanContinuationSkipped ==
    (/\ pc \in {"loop", "threw"}
     /\ index >= 1
     /\ IsFragmentRow(rows[index])
     /\ (index = 1 \/ IsTypeRowInBucket7(rows[index - 1])))
    => /\ pc = "loop"
       /\ row = <<>>
       /\ type = (IF index = 1 THEN Null ELSE rows[index - 1][7])

\* rows 4 .. n-2 of the page in reading order
ClassifiedRows == SubSeq(ReadingOrderRows, 4, Len(ReadingOrderRows) - 2)

\* C18: on a page of at least 5 rows the first three rows and the last two
\* rows in reading order leave no trace: the loop starts with no result, no
\* pending transaction and no type, and the transactions returned are those
\* of rows 4 .. n-2 in reading order and of nothing else.
C18_HeaderFooterNeverData ==
    Cardinality(RowKeys) >= 5 =>
        /\ (pc = "loop" /\ index = 0) => (results = <<>> /\ row = <<>> /\ type = Null)
        /\ pc = "returned" => results = TransactionsOf(ClassifiedRows)

RECURSIVE FirstHeld(_, _, _)
\* the value of the first bucket of bs, from position k, that v holds
FirstHeld(v, bs, k) ==
    IF k > Len(bs) THEN <<>>
    ELSE IF bs[k] \in DOMAIN v /\ v[bs[k]] # "" THEN <<v[bs[k]]>>
    ELSE FirstHeld(v, bs, k + 1)

AmountBuckets == <<111, 110, 109, 108, 107>>
PercentBuckets == <<85, 83>>
DollarBuckets == <<89>>

\* field is the first held value of buckets bs of v, and no text of v at all
\* when none of them is held
FieldFrom(field, v, bs) ==
    IF FirstHeld(v, bs, 1) # <<>>
    THEN field = FirstHeld(v, bs, 1)[1]
    ELSE field \notin {v[k] : k \in DOMAIN v}

\* record r carries the numeric fields of the new-transaction row v
NumericFieldsFrom(r, v) ==
    /\ FieldFrom(r.Amount, v, AmountBuckets)
    /\ FieldFrom(r.DailyCashPercent, v, PercentBuckets)
    /\ FieldFrom(r.DailyCashDollar, v, DollarBuckets)

\* C19: every transaction, pending or in results, has as Amount the value of
\* the first of buckets 111, 110, 109, 108, 107 that its row holds, as Daily
\* Cash (%) the value of bucket 85 and else of bucket 83, as Daily Cash ($)
\* the value of bucket 89, and no text of the row where none is held.
C19_NumericFallbackOrder ==
    pc \in {"loop", "returned"} =>
        /\ row # <<>> => NumericFieldsFrom(row[1], rows[rowFrom])
        /\ \A j \in 1..Len(results) : NumericFieldsFrom(results[j], rows[pushedFrom[j]])

\* a returned transaction whose row holds two amount buckets, both
\* percentage buckets and a bucket that feeds no field
C19_Witness ==
    /\ pc = "returned"
    /\ \E j \in 1..Len(results) :
          LET v == rows[pushedFrom[j]]
          IN /\ {108, 110, 83, 85, 100} \subseteq DOMAIN v
             /\ results[j].Amount = v[110]
             /\ results[j].DailyCashPercent = v[85]

\* the transactions of the page so far, the pending one included
Transactions == results \o row

\* C20: every transaction of a page, after any sequence of rows, has a Date
\* that parses to a date, and the comparator of the sort yields a number for
\* every two of them.
C20_SortKeysDefined ==
    /\ \A j \in 1..Len(Transactions) : IsParseable(Transactions[j].Date)
    /\ \A j, k \in 1..Len(Transactions) :
          ~NumberIsNaN(comparator(Transactions[j], Transactions[k]))

\* two transactions returned from a page with a row of an unparseable date
C20_Witness ==
    /\ pc = "returned"
    /\ Len(results) >= 2
    /\ \E k \in 1..Len(rows) :
          IsDatedRowCandidate(rows[k]) /\ ~IsParseable(DateCandidate(rows[k]))

\* ------------------------------------------------------------------------
\* Claims about the document parser and the aggregator (checked under Spec)
\* ------------------------------------------------------------------------

\* the page numbers given to getPage for statement k, in the order given
RetrievedOf(k) ==
    LET mine == SelectSeq(retrieved, LAMBDA e : e[1] = k)
    IN [n \in 1..Len(mine) |-> mine[n][2]]

\* the page numbers 2 .. N of a document of N pages
AllButFirst(N) == [n \in 1..(IF N >= 1 THEN N - 1 ELSE 0) |-> n + 1]

\* C7: when the call has resolved, the pages retrieved of each document of N
\* pages are the pages 2 .. N as getPage numbers them, each once and in
\* ascending order (so none for N <= 1): the first page is not retrieved and
\* the last one is.
C7_CoverPageSkipped ==
    mainPc = "resolved" =>
        \A k \in 0..(Len(statements) - 1) :
            RetrievedOf(k) = AllButFirst(Len(statements[k + 1].pages))

\* C8: once a document's decoding, a page's retrieval or a page's content
\* extraction has failed, the call is rejected with that failure and has
\* resolved with no list, and from then on no further document is decoded
\* and no further page retrieved.
C8_FailureAbortsCall ==
    /\ [](failure # "none" =>
            (mainPc = "rejected" /\ error = failure /\ returned = <<>>))
    /\ [][failure # "none" =>
            (decoded' = decoded /\ retrieved' = retrieved /\ mainPc' = mainPc)]_vars

\* a page retrieval that fails in the second document, after the first
\* document gave transactions
C8_Witness ==
    /\ mainPc = "rejected"
    /\ failure = "getPage"
    /\ i = 1
    /\ mainResults # <<>>

DateKeys(seq) == {DateParse(seq[k].Date).v : k \in 1..Len(seq)}

RECURSIVE GroupedByDate(_, _)
\* the records of seq of the least date of keys, in the order they have in
\* seq, then those of the next date, and so on
GroupedByDate(seq, keys) ==
    IF keys = {} THEN <<>>
    ELSE LET m == Min(keys)
         IN SelectSeq(seq, LAMBDA t : DateParse(t.Date).v = m)
                \o GroupedByDate(seq, keys \ {m})

\* C9: when the call has resolved, the list it resolved with holds exactly
\* the transactions of the processed pages (documents in input order, pages
\* in page order, rows in row order), none lost and none twice, in ascending
\* order of parsed Date, records of equal parsed date in their original
\* order.
C9_SortedStableLossless ==
    mainPc = "resolved" =>
        /\ Len(returned) = Len(emitted)
        /\ \A j \in 1..(Len(returned) - 1) :
              DateParse(returned[j].Date).v <= DateParse(returned[j + 1].Date).v
        /\ returned = GroupedByDate(emitted, DateKeys(emitted))

\* two documents whose transactions the sort reorders, two of them of equal
\* parsed date but different Date text
C9_Witness ==
    /\ mainPc = "resolved"
    /\ Len(statements) = 2
    /\ returned # emitted
    /\ \E j \in 1..(Len(returned) - 1) :
          /\ returned[j].Date # returned[j + 1].Date
          /\ DateParse(returned[j].Date) = DateParse(returned[j + 1].Date)

\* a single Uint8Array, or an array of Uint8Arrays only
IsValidShape(s) ==
    \/ s.kind = "Uint8Array"
    \/ s.kind = "Array" /\ \A k \in 1..Len(s.elems) : s.elems[k].isUint8Array

\* C10: when the argument is neither a Uint8Array nor an array of
\* Uint8Arrays only, the call is rejected with a TypeError, and no document
\* is decoded and no page retrieved, not even for valid leading elements.
C10_InvalidShapeRejectedFirst ==
    ~IsValidShape(src) =>
        /\ mainPc \in {"start", "rejected"}
        /\ mainPc = "rejected" => error = "TypeError"
        /\ decoded = <<>>
        /\ retrieved = <<>>

\* an array of a Uint8Array followed by something else, rejected
C10_Witness ==
    /\ mainPc = "rejected"
    /\ error = "TypeError"
    /\ src.kind = "Array"
    /\ Len(src.elems) = 2
    /\ src.elems[1].isUint8Array
    /\ ~src.elems[2].isUint8Array

\* p is q, or q without its last element
AllButAtMostLast(p, q) ==
    /\ Len(p) <= Len(q)
    /\ Len(q) <= Len(p) + 1
    /\ \A j \in 1..Len(p) : p[j] = q[j]

\* C11: at most one decode, page retrieval or content extraction is in
\* flight at any time, and it is the one the call awaits; a document is given
\* to the decoder only when the parse of every document before it has
\* returned, and a page is asked for only when the content of every page asked
\* for before it has been extracted and processed.
C11_StrictlySequential ==
    /\ Cardinality(inFlight) <= 1
    /\ inFlight # {} <=> mainPc \in {"getDocument", "getPage", "getTextContent"}
    /\ \A o \in inFlight : o.op = mainPc /\ o.stmt = i
    /\ AllButAtMostLast(parsed, decoded)
    /\ AllButAtMostLast(processed, retrieved)
    /\ \A o \in inFlight : o.op = "getDocument" =>
          /\ processed = retrieved
          /\ parsed = SubSeq(decoded, 1, Len(decoded) - 1)
    /\ \A o \in inFlight : o.op = "getPage" =>
          processed = SubSeq(retrieved, 1, Len(retrieved) - 1)

\* the second page of the second document is asked for, after the first
\* document was parsed and two pages were processed
C11_Witness ==
    /\ inFlight = {Operation("getPage", 1, 2)}
    /\ parsed = <<0>>
    /\ Len(processed) >= 2

\* content.items of page n of statement s
ContentOf(s, n) == PageContent(GetPage(statements[s + 1], n))

\* the transactions of a page parsed on its own
PageAlone(items) ==
    LET p == Prepare(items)
    IN IF p.outcome = "loop" THEN TransactionsOf(p.rows) ELSE <<>>

RECURSIVE AloneUpTo(_, _)
\* the transactions of the first k pages processed that belong to a statement
\* of S, each page parsed on its own, one after the other
AloneUpTo(k, S) ==
    IF k = 0 THEN <<>>
    ELSE AloneUpTo(k - 1, S)
           \o (IF processed[k][1] \in S
               THEN PageAlone(ContentOf(processed[k][1], processed[k][2]))
               ELSE <<>>)

\* the k-th page processed has a transaction row as its first body row
OpensBeforeAnyMarker(k) ==
    LET p == Prepare(ContentOf(processed[k][1], processed[k][2]))
    IN /\ p.outcome = "loop"
       /\ p.rows # <<>>
       /\ IsDatedRowCandidate(p.rows[1])
       /\ IsParseable(DateCandidate(p.rows[1]))

\* C17: the transactions of the pages processed are those of each page parsed
\* on its own, one after the other, for the call and for the document being
\* parsed; and a transaction made from the first body row of a page has Type
\* null whatever the pages before it held.
C17_AccumulatorsPageScoped ==
    /\ emitted = AloneUpTo(Len(processed), 0..(Len(statements) - 1))
    /\ mainPc \in {"getPage", "getTextContent"} =>
          docResults = AloneUpTo(Len(processed), {i})
    /\ \A k \in 1..Len(processed) :
          OpensBeforeAnyMarker(k) =>
              emitted[Len(AloneUpTo(k - 1, 0..(Len(statements) - 1))) + 1].Type = Null

\* a transaction of type Purchases from one page, and after it the
\* transaction of the first body row of a later page, of type null
C17_Witness ==
    \E j, k \in 1..Len(emitted) :
        /\ j < k
        /\ emitted[j].Type = "Purchases"
        /\ emitted[k].Description = "Books"
        /\ emitted[k].Type = Null

====
